---- MODULE Spec2Model ----
(***************************************************************************)
(* A model of libs/freelan/src/curl.cpp: the curl_multi association map    *)
(* and the asio adapter curl_multi_asio (socket table, handler table,      *)
(* timer, strand), driven by a model of the libcurl multi interface as     *)
(* the calls in curl.cpp use it.                                           *)
(***************************************************************************)
EXTENDS Integers, Sequences, FiniteSets, TLC

\* ---------------------------------------------------------------- bounds
NumHandles == 2      \* transfer handles (CURL* values) the application owns
MaxFd == 1           \* native descriptors the reactor can hand out
MaxQueue == 2        \* handlers waiting on the strand
MaxNodes == 3        \* curl_slist nodes the engine allocates

Handles == 1..NumHandles
Fds == 1..MaxFd

\* ------------------------------------------------------- representation
\* m_associations[h] : no entry, an entry holding an empty unique_ptr, or an
\* entry holding a curl_association.
Absent == "absent"
Null == "null"
Assoc == "assoc"
\* m_handler_map[h] : no entry, an entry holding an empty boost::function,
\* or the id (> 0) of a callable completion callback. The application's
\* callback for handle h has the id h.
NoEntry == -1
EmptyHandler == 0
\* m_socket_map[fd] : no entry, an entry holding an empty shared_ptr (what
\* operator[] inserts), or an entry owning a live tcp socket.
Sock == "sock"
\* curl_socket_t sentinels of curl.h
CURL_SOCKET_BAD == -1
CURL_SOCKET_TIMEOUT == -1

\* the options of a transfer handle the model follows, with libcurl's defaults
OptionNames == {"CURLOPT_HTTPHEADER", "CURLOPT_POSTFIELDSIZE_LARGE", "CURLOPT_POSTFIELDS",
                "CURLOPT_CONNECTTIMEOUT_MS"}
NoOptions == [o \in OptionNames |-> IF o = "CURLOPT_POSTFIELDSIZE_LARGE" THEN -1 ELSE 0]
NoCall == [op |-> "none", code |-> "CURLE_OK", raised |-> "none"]

VARIABLES
    m_associations,   \* curl_multi::m_associations
    m_handler_map,    \* curl_multi_asio::m_handler_map
    m_socket_map,     \* curl_multi_asio::m_socket_map
    hooks,            \* per handle: CURLOPT_OPEN/CLOSESOCKET FUNCTION+DATA refer to the adapter
    m_timer,          \* "idle" or "waiting": one outstanding async_wait
    strandQ,          \* handlers queued on m_strand, FIFO
    posts,            \* callback id -> times it was given to m_io_service.post
                      \*                since the latest successful add_handle with it
    post_ec,          \* callback id -> the error_code bound in the latest post
    pc,               \* "idle", or "in_action" while curl_multi_socket_action runs
    inAction,         \* socket_action calls entered and not yet returned
    action_args,      \* arguments of the latest socket_action call
    eng_handles,      \* easy handles registered in the CURLM
    eng_done,         \* registered handles whose transfer finished
    eng_msgs,         \* the CURLM message queue
    fault,            \* "none", or how the process died on a null dereference
    fate,             \* history: callback id -> "removed" (the latest operation was
                      \*   remove_handle and took it out of the table) | "cleared" (the
                      \*   latest operation was clear and took it out) | ""
    drained,          \* history: [h, cb, res] for each DONE message the latest
                      \*          operation read, if it was check_info
    last_op,          \* history: the latest adapter operation and how it ended
    life,             \* "owned": the application (curl_manager) holds a shared_ptr to
                      \*   the adapter; "released": only handlers hold one;
                      \*   "destroyed": ~curl_multi_asio has run
    heap,             \* the curl_slist nodes allocated so far: [data, next, live]
    m_slist,          \* curl_list::m_slist of a transfer handle's m_http_headers:
                      \*   a node id, 0 for nullptr
    opts,             \* the options registered in a transfer handle (CURL*)
    appended,         \* history: whether the list was reset, and the lines appended
                      \*   to it since (or since it was constructed)
    easy_op           \* history: the latest call on the transfer handle or its list

\* the adapter's state but for fault
adapter == <<m_associations, m_handler_map, m_socket_map, hooks, m_timer, strandQ,
             posts, post_ec, pc, inAction, action_args, eng_handles, eng_done, eng_msgs,
             fate, drained, last_op>>
\* the state of a transfer handle and its header list
easy == <<heap, m_slist, opts, appended, easy_op>>

vars == <<m_associations, m_handler_map, m_socket_map, hooks, m_timer, strandQ,
          posts, post_ec, pc, inAction, action_args, eng_handles, eng_done, eng_msgs,
          fault, fate, drained, last_op, life, heap, m_slist, opts, appended, easy_op>>

\* history only: "removed" and "cleared" describe the latest operation
Settled == [c \in Handles |-> ""]

\* The part of the state the operations of curl.cpp read and write, as a record
\* so that one operation can be composed with the next as the code calls them.
\* raised: the exception the operation threw; result: its return value.
St == [assoc |-> m_associations, handlers |-> m_handler_map, socks |-> m_socket_map,
       hooks |-> hooks, timer |-> m_timer, strandQ |-> strandQ, posts |-> posts,
       post_ec |-> post_ec, inAction |-> inAction, eng_handles |-> eng_handles,
       eng_done |-> eng_done, eng_msgs |-> eng_msgs, fault |-> fault,
       fate |-> Settled, drained |-> {}, raised |-> "none", result |-> 0]

Commit(s) ==
    /\ m_associations' = s.assoc
    /\ m_handler_map' = s.handlers
    /\ m_socket_map' = s.socks
    /\ hooks' = s.hooks
    /\ m_timer' = s.timer
    /\ strandQ' = s.strandQ
    /\ posts' = s.posts
    /\ post_ec' = s.post_ec
    /\ inAction' = s.inAction
    /\ eng_handles' = s.eng_handles
    /\ eng_done' = s.eng_done
    /\ eng_msgs' = s.eng_msgs
    /\ fault' = s.fault
    /\ fate' = s.fate
    /\ drained' = s.drained

Task(type, h, cb, ec) == [type |-> type, h |-> h, cb |-> cb, ec |-> ec]
TimerTask(ec) == Task("timer", 0, NoEntry, ec)

\* m_io_service.post(boost::bind(handler, ec))
io_post(s, handler, ec) ==
    [s EXCEPT !.posts[handler] = @ + 1, !.post_ec[handler] = ec]

\* history only: callback c meets its fate
SetFate(s, c, what) ==
    [s EXCEPT !.fate[c] = what]

SelectMsgs(q, h) == SelectSeq(q, LAMBDA m : m.h # h)

\* ------------------------------------------------------------ the timer
\* boost::asio::deadline_timer::cancel(): an outstanding wait completes with
\* operation_aborted, its wrapped handler going to the strand; a wait that
\* already expired is not affected.
timer_cancel(s) ==
    IF s.timer = "waiting"
    THEN [s EXCEPT !.timer = "idle", !.strandQ = Append(@, TimerTask("aborted"))]
    ELSE s

\* curl_multi_asio::static_timer_callback with timer_callback run inline for a
\* non-positive timeout instead of being posted to the strand
static_timer_callback_inline(s, timeout_ms) ==
    LET c == timer_cancel(s)
    IN  IF timeout_ms > 0
        THEN [c EXCEPT !.timer = "waiting"]
        ELSE [c EXCEPT !.inAction = @ + 1]

\* curl_multi_asio::static_timer_callback with the test  timeout_ms >= 0
static_timer_callback_ge(s, timeout_ms) ==
    LET c == timer_cancel(s)
    IN  IF timeout_ms >= 0
        THEN [c EXCEPT !.timer = "waiting"]
        ELSE [c EXCEPT !.strandQ = Append(@, TimerTask("ok"))]

\* curl_multi_asio::static_timer_callback
static_timer_callback(s, timeout_ms) ==
    LET c == timer_cancel(s)
    IN  IF timeout_ms > 0
        THEN [c EXCEPT !.timer = "waiting"]
        ELSE [c EXCEPT !.strandQ = Append(@, TimerTask("ok"))]

\* ------------------------------------------------------ the socket hooks
\* curl_multi_asio::open_socket_callback: fd is the native handle the new
\* tcp socket gets; result is what the engine is given
open_socket_callback(s, purpose, family, fd) ==
    IF purpose = "CURLSOCKTYPE_IPCXN" /\ (family = "AF_INET" \/ family = "AF_INET6")
    THEN [s EXCEPT !.socks[fd] = Sock, !.result = fd]
    ELSE [s EXCEPT !.result = CURL_SOCKET_BAD]

\* curl_multi_asio::close_socket_callback
close_socket_callback(s, fd) ==
    [s EXCEPT !.socks[fd] = Absent]

\* curl_multi_asio::static_socket_callback: m_socket_map[socket_fd] is
\* std::map::operator[], which inserts an empty pointer for an unknown key;
\* the switch only logs
static_socket_callback(s, fd, action) ==
    [s EXCEPT !.socks[fd] = IF @ = Absent THEN Null ELSE @]

\* ----------------------------------------------------- the association
\* curl_association's constructor with the result of curl_multi_add_handle
\* not checked
curl_association_ctor_unchecked(s, h, accept) ==
    IF h \in s.eng_handles \/ ~accept THEN s
    ELSE static_timer_callback([s EXCEPT !.eng_handles = @ \cup {h}], 0)

\* curl_association's constructor: curl_multi_add_handle, which refuses a
\* handle that is already in the multi handle (or for a reason of its own:
\* accept = FALSE) and otherwise registers it and asks for an immediate
\* timeout through the timer callback; throw_if_curlm_error throws on refusal
\* a runtime_error whose text is the engine's error.
curl_association_ctor(s, h, accept) ==
    IF h \in s.eng_handles THEN [s EXCEPT !.raised = "CURLM_ADDED_ALREADY"]
    ELSE IF ~accept THEN [s EXCEPT !.raised = "CURLM_OUT_OF_MEMORY"]
    ELSE static_timer_callback([s EXCEPT !.eng_handles = @ \cup {h}], 0)

\* the engine closes connections: CURLOPT_CLOSESOCKETFUNCTION for each
RECURSIVE CloseAll(_, _)
CloseAll(s, fds) ==
    IF fds = {} THEN s
    ELSE LET fd == CHOOSE x \in fds : TRUE
         IN  CloseAll(close_socket_callback(s, fd), fds \ {fd})

\* curl_association's destructor: curl_multi_remove_handle, which drops the
\* handle and its pending message. For a transfer still in progress the
\* engine may close its connection at once, through the close-socket hook
\* registered in the handle (its own close otherwise, which the adapter does
\* not see): closes are the descriptors it closes.
curl_association_dtor(s, h, closes) ==
    LET e == [s EXCEPT !.eng_handles = @ \ {h},
                       !.eng_done = @ \ {h},
                       !.eng_msgs = SelectMsgs(@, h)]
    IN  IF h \in s.eng_handles \ s.eng_done /\ s.hooks[h] THEN CloseAll(e, closes) ELSE e

\* curl_multi::add_handle:  m_associations[raw] = unique_ptr(new curl_association)
\* Before C++17 the two operands of the assignment are evaluated in an
\* unspecified order: with the left one first, operator[] has inserted an
\* empty entry when the constructor throws.
multi_add_handle(s, h, accept, ord) ==
    LET lhs == [s EXCEPT !.assoc[h] = IF @ = Absent THEN Null ELSE @]
        c == curl_association_ctor(IF ord = "lhs_first" THEN lhs ELSE s, h, accept)
        old == IF c.assoc[h] = Assoc THEN curl_association_dtor(c, h, {}) ELSE c
    IN  IF c.raised # "none" THEN c ELSE [old EXCEPT !.assoc[h] = Assoc]

\* curl_multi::remove_handle; result 0 stands for the null shared_ptr.
\* An entry holding an empty unique_ptr is dereferenced (line 397).
multi_remove_handle(s, h, f, closes) ==
    IF s.assoc[h] = Absent THEN [s EXCEPT !.result = 0]
    ELSE IF s.assoc[h] = Null THEN [s EXCEPT !.fault = f]
    ELSE [curl_association_dtor(s, h, closes) EXCEPT !.assoc[h] = Absent, !.result = h]

\* the destructors of the associations hs
RECURSIVE DestroyAll(_, _, _)
DestroyAll(s, hs, closes) ==
    IF hs = {} THEN s
    ELSE LET h == CHOOSE x \in hs : TRUE
         IN  DestroyAll(curl_association_dtor(s, h, closes), hs \ {h}, closes)

\* curl_multi::clear
multi_clear(s, closes) ==
    [DestroyAll(s, {h \in Handles : s.assoc[h] = Assoc}, closes)
        EXCEPT !.assoc = [h \in Handles |-> Absent]]

\* --------------------------------------------------------- the adapter
\* curl_multi_asio::add_handle
asio_add_handle(s, h, handler, accept, ord) ==
    LET m == multi_add_handle([s EXCEPT !.hooks[h] = TRUE], h, accept, ord)
    IN  IF m.raised # "none" THEN m
        ELSE IF handler = EmptyHandler THEN [m EXCEPT !.handlers[h] = handler]
        ELSE [m EXCEPT !.handlers[h] = handler, !.posts[handler] = 0,
                       !.post_ec[handler] = ""]

\* m_handler_map.erase(result), with the stored callback scheduled first
handler_erase_notify(s, h) ==
    [(IF s.handlers[h] > EmptyHandler THEN io_post(s, s.handlers[h], "aborted") ELSE s)
        EXCEPT !.handlers[h] = NoEntry]

\* m_handler_map.erase(result) in curl_multi_asio::remove_handle
handler_erase(s, h) ==
    [s EXCEPT !.handlers[h] = NoEntry]

\* curl_multi_asio::remove_handle with the hooks of a registered handle
\* cleared before curl_multi::remove_handle is called
asio_remove_handle_hooks_first(s, h, f, closes) ==
    LET c == IF s.assoc[h] = Assoc THEN [s EXCEPT !.hooks[h] = FALSE] ELSE s
        r == multi_remove_handle(c, h, f, closes)
    IN  IF r.fault # "none" THEN r
        ELSE IF r.result = 0 THEN [r EXCEPT !.fault = f]
        ELSE handler_erase(r, h)

\* curl_multi_asio::remove_handle. When curl_multi::remove_handle returns the
\* null pointer, erase(null) finds no key and result->set_option dereferences it.
asio_remove_handle(s, h, f, closes) ==
    LET r == multi_remove_handle(s, h, f, closes)
    IN  IF r.fault # "none" THEN r
        ELSE IF r.result = 0 THEN [r EXCEPT !.fault = f]
        ELSE [handler_erase(r, h) EXCEPT !.hooks[h] = FALSE]

\* curl_multi_asio::clear without the m_socket_map.clear() of line 500
asio_clear_keep_sockets(s, closes) ==
    [multi_clear(s, closes) EXCEPT !.handlers = [h \in Handles |-> NoEntry]]

\* curl_multi_asio::clear
asio_clear(s, closes) ==
    [multi_clear(s, closes) EXCEPT !.handlers = [h \in Handles |-> NoEntry],
                           !.socks = [fd \in Fds |-> Absent]]

\* the body of check_info's loop for one message
check_info_msg(s, msg, f) ==
    IF msg.msg # "DONE" THEN s
    ELSE LET d == [s EXCEPT !.drained =
                        @ \cup {[h |-> msg.h, cb |-> s.handlers[msg.h], res |-> msg.res]}]
             r == asio_remove_handle(d, msg.h, f, {})
         IN  IF r.fault # "none" THEN r
             ELSE LET handler == r.handlers[r.result]
                  IN  IF handler = NoEntry THEN r
                      ELSE [(IF handler # EmptyHandler
                             THEN io_post(r, handler, "no_error") ELSE r)
                                EXCEPT !.handlers[r.result] = NoEntry]

\* curl_multi_asio::check_info reading a single message (an if for the for)
RECURSIVE check_info(_, _)
check_info_once(s, f) ==
    IF s.fault # "none" \/ s.eng_msgs = <<>> THEN s
    ELSE check_info_msg([s EXCEPT !.eng_msgs = Tail(@)], Head(s.eng_msgs), f)

\* curl_multi_asio::check_info: info_read pops one message at a time until
\* none is left
check_info(s, f) ==
    IF s.fault # "none" \/ s.eng_msgs = <<>> THEN s
    ELSE check_info(check_info_msg([s EXCEPT !.eng_msgs = Tail(@)], Head(s.eng_msgs), f), f)

\* ---------------------------------------------------------------- Init
FaultKinds == {"abort", "segv"}
Orders == {"lhs_first", "rhs_first"}
Purposes == {"CURLSOCKTYPE_IPCXN", "CURLSOCKTYPE_ACCEPT"}
Families == {"AF_INET", "AF_INET6", "AF_UNIX"}
PollActions == {"CURL_POLL_IN", "CURL_POLL_OUT", "CURL_POLL_INOUT", "CURL_POLL_REMOVE"}
Results == {"CURLE_OK", "CURLE_COULDNT_CONNECT"}
Timeouts == {-1, 0, 1}

Init ==
    /\ m_associations = [h \in Handles |-> Absent]
    /\ m_handler_map = [h \in Handles |-> NoEntry]
    /\ m_socket_map = [fd \in Fds |-> Absent]
    /\ hooks = [h \in Handles |-> FALSE]
    /\ m_timer = "idle"
    /\ strandQ = <<>>
    /\ posts = [c \in Handles |-> 0]
    /\ post_ec = [c \in Handles |-> ""]
    /\ pc = "idle"
    /\ inAction = 0
    /\ action_args = [sockfd |-> 0, ev_bitmask |-> 0]
    /\ eng_handles = {}
    /\ eng_done = {}
    /\ eng_msgs = <<>>
    /\ fault = "none"
    /\ fate = [c \in Handles |-> ""]
    /\ drained = {}
    /\ last_op = "none"
    /\ life = "owned"
    /\ heap = <<>>
    /\ m_slist = 0
    /\ opts = NoOptions
    /\ appended = [since_reset |-> FALSE, lines |-> <<>>]
    /\ easy_op = NoCall

\* the handlers an application passes with handle h: an empty function, or
\* its callback for h
Handlers(h) == {EmptyHandler, h}
\* the shared_ptr owners of the adapter other than the application: the bound
\* timer_callback handlers (shared_from_this, lines 526 and 530) that are
\* queued, waiting on the timer, or running
HandlerRefs ==
    Len(SelectSeq(strandQ, LAMBDA task : task.type = "timer"))
        + (IF m_timer = "waiting" THEN 1 ELSE 0) + inAction
\* the process runs and the adapter object exists
Alive ==
    /\ fault = "none"
    /\ life = "owned" \/ (life = "released" /\ HandlerRefs > 0)
Serialized == Alive /\ pc = "idle"
Fits(s) == Len(s.strandQ) <= MaxQueue

\* ------------------------------------------- the application's direct calls
\* add_handle(handle, handler), called in the strand's context
AddHandle(h, handler, accept, ord) ==
    /\ Serialized
    /\ life = "owned"
    /\ LET r == asio_add_handle(St, h, handler, accept, ord)
       IN  /\ Fits(r)
           /\ Commit(r)
           /\ last_op' = IF r.raised = "none" THEN "add" ELSE r.raised
    /\ UNCHANGED <<pc, action_args>>
    /\ UNCHANGED <<life, easy>>

\* remove_handle(easy_handle), called in the strand's context
RemoveHandle(h, f, closes) ==
    /\ Serialized
    /\ life = "owned"
    /\ LET c == m_handler_map[h]
           s0 == IF m_associations[h] = Assoc /\ c > EmptyHandler
                 THEN SetFate(St, c, "removed") ELSE St
           r == asio_remove_handle(s0, h, f, closes)
       IN  /\ Commit(r)
           /\ last_op' = IF r.fault = "none" THEN "remove" ELSE "remove_fault"
    /\ UNCHANGED <<pc, action_args>>
    /\ UNCHANGED <<life, easy>>

\* history only: clear runs with these callbacks stored
RECURSIVE FateAll(_, _, _)
FateAll(s, cs, what) ==
    IF cs = {} THEN s
    ELSE LET c == CHOOSE x \in cs : TRUE
         IN  FateAll(SetFate(s, c, what), cs \ {c}, what)

Stored == {c \in Handles : \E h \in Handles : m_handler_map[h] = c}
Cleared(s) == FateAll(s, Stored, "cleared")

\* clear(), called in the strand's context
Clear(closes) ==
    /\ Serialized
    /\ life = "owned"
    /\ Commit(asio_clear(Cleared(St), closes))
    /\ last_op' = "clear"
    /\ UNCHANGED <<pc, action_args>>
    /\ UNCHANGED <<life, easy>>

\* ------------------------------------------------ calls from any thread
\* post_handle / curl_manager::execute
PostHandle(h, handler) ==
    /\ Alive
    /\ life = "owned"
    /\ Len(strandQ) < MaxQueue
    /\ strandQ' = Append(strandQ, Task("add", h, handler, ""))
    /\ drained' = {}
    /\ last_op' = "none"
    /\ UNCHANGED <<m_associations, m_handler_map, m_socket_map, hooks, m_timer, posts,
                   post_ec, pc, inAction, action_args, eng_handles, eng_done, eng_msgs,
                   fault>>
    /\ fate' = Settled
    /\ UNCHANGED <<life, easy>>

\* async_clear(handler); the handler, when one is given, is the application's
AsyncClear ==
    /\ Alive
    /\ life = "owned"
    /\ Len(strandQ) < MaxQueue
    /\ fate' = Settled
    /\ strandQ' = Append(strandQ, Task("clear", 0, NoEntry, ""))
    /\ drained' = {}
    /\ last_op' = "none"
    /\ UNCHANGED <<m_associations, m_handler_map, m_socket_map, hooks, m_timer, posts,
                   post_ec, pc, inAction, action_args, eng_handles, eng_done, eng_msgs,
                   fault>>
    /\ UNCHANGED <<life, easy>>

\* the deadline timer expires: the wrapped handler goes to the strand
TimerExpire ==
    /\ Alive
    /\ m_timer = "waiting"
    /\ Len(strandQ) < MaxQueue
    /\ m_timer' = "idle"
    /\ strandQ' = Append(strandQ, TimerTask("ok"))
    /\ drained' = {}
    /\ last_op' = "timer_expired"
    /\ UNCHANGED <<m_associations, m_handler_map, m_socket_map, hooks, posts,
                   post_ec, pc, inAction, action_args, eng_handles, eng_done, eng_msgs,
                   fault>>
    /\ fate' = Settled
    /\ UNCHANGED <<life, easy>>

\* ------------------------------------------------- the strand's handlers
\* the lambda of post_handle
RunAdd(accept, ord) ==
    /\ Serialized
    /\ strandQ # <<>>
    /\ Head(strandQ).type = "add"
    /\ LET t == Head(strandQ)
           r == asio_add_handle([St EXCEPT !.strandQ = Tail(@)], t.h, t.cb, accept, ord)
       IN  /\ Fits(r)
           /\ Commit(r)
           /\ last_op' = IF r.raised = "none" THEN "add" ELSE r.raised
    /\ UNCHANGED <<pc, action_args>>
    /\ UNCHANGED <<life, easy>>

\* the lambda of async_clear
RunClear(closes) ==
    /\ Serialized
    /\ strandQ # <<>>
    /\ Head(strandQ).type = "clear"
    /\ Commit(asio_clear(Cleared([St EXCEPT !.strandQ = Tail(@)]), closes))
    /\ last_op' = "clear_task"
    /\ UNCHANGED <<pc, action_args>>
    /\ UNCHANGED <<life, easy>>

\* curl_multi_asio::timer_callback up to its call of socket_action
RunTimer ==
    /\ Serialized
    /\ strandQ # <<>>
    /\ Head(strandQ).type = "timer"
    /\ strandQ' = Tail(strandQ)
    /\ IF Head(strandQ).ec = "ok"
       THEN /\ pc' = "in_action"
            /\ inAction' = inAction + 1
            /\ action_args' = [sockfd |-> CURL_SOCKET_TIMEOUT, ev_bitmask |-> 0]
            /\ last_op' = "none"
       ELSE /\ last_op' = "none"
            /\ UNCHANGED <<pc, inAction, action_args>>
    /\ drained' = {}
    /\ UNCHANGED <<m_associations, m_handler_map, m_socket_map, hooks, m_timer, posts,
                   post_ec, eng_handles, eng_done, eng_msgs, fault>>
    /\ fate' = Settled
    /\ UNCHANGED <<life, easy>>

\* socket_action returns: throw_if_curlm_error, then check_info
SocketActionReturn(ok, f) ==
    /\ Alive
    /\ pc = "in_action"
    /\ LET s0 == [St EXCEPT !.inAction = @ - 1]
           r == IF ok THEN check_info(s0, f) ELSE [s0 EXCEPT !.raised = "CURLM_INTERNAL_ERROR"]
       IN  /\ Commit(r)
           /\ pc' = IF r.inAction = 0 THEN "idle" ELSE "in_action"
           /\ last_op' = IF r.raised # "none" THEN r.raised
                         ELSE IF r.fault = "none" THEN "drain" ELSE "drain_fault"
    /\ UNCHANGED action_args
    /\ UNCHANGED <<life, easy>>

\* ------------------------------ the engine, inside curl_multi_socket_action
InEngine == Alive /\ pc = "in_action"

\* a transfer finishes: the engine queues its CURLMSG_DONE message
EngineFinish(h, res) ==
    /\ InEngine
    /\ h \in eng_handles \ eng_done
    /\ eng_done' = eng_done \cup {h}
    /\ eng_msgs' = Append(eng_msgs, [msg |-> "DONE", h |-> h, res |-> res])
    /\ drained' = {}
    /\ last_op' = "none"
    /\ UNCHANGED <<m_associations, m_handler_map, m_socket_map, hooks, m_timer, strandQ,
                   posts, post_ec, pc, inAction, action_args, eng_handles,
                   fault>>
    /\ fate' = Settled
    /\ UNCHANGED <<life, easy>>

\* the engine calls CURLMOPT_TIMERFUNCTION
EngineTimerArm(timeout_ms) ==
    /\ InEngine
    /\ LET r == static_timer_callback(St, timeout_ms)
       IN  /\ Fits(r)
           /\ Commit(r)
    /\ pc' = IF inAction' > 0 THEN "in_action" ELSE "idle"
    /\ last_op' = IF timeout_ms > 0 THEN "timer_arm_wait" ELSE "timer_arm_now"
    /\ UNCHANGED action_args
    /\ UNCHANGED <<life, easy>>

\* the engine calls CURLOPT_OPENSOCKETFUNCTION of a running transfer; fd is
\* a descriptor not open in the process
EngineOpenSocket(h, purpose, family, fd) ==
    /\ InEngine
    /\ h \in eng_handles \ eng_done
    /\ hooks[h]
    /\ m_socket_map[fd] # Sock
    /\ Commit(open_socket_callback(St, purpose, family, fd))
    /\ last_op' = "none"
    /\ UNCHANGED <<pc, action_args>>
    /\ UNCHANGED <<life, easy>>

\* the engine closes a connection: CURLOPT_CLOSESOCKETFUNCTION
EngineCloseSocket(fd) ==
    /\ InEngine
    /\ Commit(close_socket_callback(St, fd))
    /\ last_op' = "none"
    /\ UNCHANGED <<pc, action_args>>
    /\ UNCHANGED <<life, easy>>

\* the engine calls CURLMOPT_SOCKETFUNCTION
EngineSocketNotify(fd, action) ==
    /\ InEngine
    /\ Commit(static_socket_callback(St, fd, action))
    /\ last_op' = "none"
    /\ UNCHANGED <<pc, action_args>>
    /\ UNCHANGED <<life, easy>>

Next ==
    \/ \E h \in Handles : \E handler \in Handlers(h), accept \in BOOLEAN, ord \in Orders :
            AddHandle(h, handler, accept, ord)
    \/ \E h \in Handles, f \in FaultKinds, closes \in SUBSET Fds : RemoveHandle(h, f, closes)
    \/ \E closes \in SUBSET Fds : Clear(closes)
    \/ \E h \in Handles : PostHandle(h, h)
    \/ AsyncClear
    \/ TimerExpire
    \/ \E accept \in BOOLEAN, ord \in Orders : RunAdd(accept, ord)
    \/ \E closes \in SUBSET Fds : RunClear(closes)
    \/ RunTimer
    \/ \E ok \in BOOLEAN, f \in FaultKinds : SocketActionReturn(ok, f)
    \/ \E h \in Handles, res \in Results : EngineFinish(h, res)
    \/ \E t \in Timeouts : EngineTimerArm(t)
    \/ \E h \in Handles, p \in Purposes, fam \in Families, fd \in Fds :
            EngineOpenSocket(h, p, fam, fd)
    \/ \E fd \in Fds : EngineCloseSocket(fd)
    \/ \E fd \in Fds, a \in PollActions : EngineSocketNotify(fd, a)

Spec == Init /\ [][Next]_vars

\* ===================================================== the transfer handle
\* what the calls on a transfer handle read and write, as a record; code is
\* the engine's latest answer to curl_easy_setopt in the call
Es == [heap |-> heap, slist |-> m_slist, opts |-> opts, appended |-> appended,
       fault |-> fault, raised |-> "none", result |-> 0, code |-> "CURLE_OK"]

ECommit(e) ==
    /\ heap' = e.heap
    /\ m_slist' = e.slist
    /\ opts' = e.opts
    /\ appended' = e.appended
    /\ fault' = e.fault

\* what undefined behaviour (reading or freeing released memory) can do: end
\* the process, or go on as if the memory were intact
UBOutcomes == FaultKinds \cup {"none"}
\* CURLcode values of curl_easy_setopt / curl_easy_getinfo
Codes == {"CURLE_OK", "CURLE_UNKNOWN_OPTION"}
\* curl_easy_strerror
curl_easy_strerror(code) ==
    CASE code = "CURLE_OK" -> "No error"
      [] code = "CURLE_UNKNOWN_OPTION" -> "An unknown option was passed in to libcurl"

\* the node ids of the chain that starts at p
RECURSIVE Chain(_, _, _)
Chain(hp, p, fuel) ==
    IF p = 0 \/ fuel = 0 THEN <<>>
    ELSE <<p>> \o Chain(hp, hp[p].next, fuel - 1)

Released(hp, ids) == \E i \in 1..Len(ids) : ~hp[ids[i]].live

\* curl_slist_free_all: frees every node of the chain; freeing a node that is
\* already released is undefined
curl_slist_free_all(e, p, ub) ==
    LET ids == Chain(e.heap, p, Len(e.heap))
        freed == [n \in 1..Len(e.heap) |->
                    IF \E i \in 1..Len(ids) : ids[i] = n
                    THEN [e.heap[n] EXCEPT !.live = FALSE] ELSE e.heap[n]]
    IN  IF Released(e.heap, ids) /\ ub # "none" THEN [e EXCEPT !.fault = ub]
        ELSE [e EXCEPT !.heap = freed]

\* curl_slist_append: NULL (0) when no node can be allocated; the new node for
\* an empty list; otherwise the new node is linked after the last one and the
\* head is returned unchanged. Walking a released chain is undefined.
curl_slist_append(e, list, data, alloc_ok, ub) ==
    LET ids == Chain(e.heap, list, Len(e.heap))
        n == Len(e.heap) + 1
        node == [data |-> data, next |-> 0, live |-> TRUE]
    IN  IF ~alloc_ok THEN [e EXCEPT !.result = 0]
        ELSE IF list = 0 THEN [e EXCEPT !.heap = Append(@, node), !.result = n]
        ELSE IF Released(e.heap, ids) /\ ub # "none" THEN [e EXCEPT !.fault = ub]
        ELSE [e EXCEPT !.heap = Append([@ EXCEPT ![ids[Len(ids)]].next = n], node),
                       !.result = list]

\* m_slist.reset(p): the new pointer is stored, then the deleter of line 76
\* runs on the old one
slist_reset(e, p, ub) ==
    LET old == e.slist
        s == [e EXCEPT !.slist = p]
    IN  IF old # 0 THEN curl_slist_free_all(s, old, ub) ELSE s

\* curl_list::append
curl_list_append(e, value, alloc_ok, ub) ==
    LET a == curl_slist_append(e, e.slist, value, alloc_ok, ub)
    IN  IF a.fault # "none" THEN a
        ELSE IF a.result = 0
        THEN [a EXCEPT !.raised = "Unable to append a value to the list"]
        ELSE LET r == slist_reset(a, a.result, ub)
             IN  IF r.fault # "none" THEN r
                 ELSE [r EXCEPT !.appended.lines = Append(@, value)]

\* curl_list::reset
curl_list_reset(e, ub) ==
    [slist_reset(e, 0, ub) EXCEPT !.appended = [since_reset |-> TRUE, lines |-> <<>>]]

\* curl_list::raw
curl_list_raw(e) == e.slist

\* curl::set_option: curl_easy_setopt answers code; throw_if_curl_error
curl_set_option(e, option, value, code) ==
    IF code = "CURLE_OK" THEN [e EXCEPT !.opts[option] = value, !.code = code]
    ELSE [e EXCEPT !.raised = curl_easy_strerror(code), !.code = code]

\* the header lines the setters build
HeaderNames == {"Accept"}
HeaderValues == {"text/html"}
HeaderLine(header, value) == <<header, ": ", value>>
UnsetLine(header) == <<header, ":">>
Lines == {HeaderLine(h, v) : h \in HeaderNames, v \in HeaderValues}
            \cup {UnsetLine(h) : h \in HeaderNames}

\* curl::set_http_header and curl::unset_http_header, line being the line
\* they append
append_http_header(e, line, alloc_ok, ub, code) ==
    LET a == curl_list_append(e, line, alloc_ok, ub)
    IN  IF a.fault # "none" \/ a.raised # "none" THEN a
        ELSE curl_set_option(a, "CURLOPT_HTTPHEADER", curl_list_raw(a), code)

\* curl::reset_http_headers: the old list is destroyed by the assignment
reset_http_headers(e, ub, code) ==
    LET a == curl_list_reset(e, ub)
    IN  IF a.fault # "none" THEN a
        ELSE curl_set_option(a, "CURLOPT_HTTPHEADER", curl_list_raw(a), code)

\* curl::set_post_fields
set_post_fields(e, size, buf, code1, code2) ==
    LET a == curl_set_option(e, "CURLOPT_POSTFIELDSIZE_LARGE", size, code1)
    IN  IF a.raised # "none" THEN a
        ELSE curl_set_option(a, "CURLOPT_POSTFIELDS", buf, code2)

\* the answers of curl_easy_getinfo: a code and, when it is CURLE_OK, a value
ResponseCodes == {200}
Lengths == {-1, 5}
ContentTypes == {[null |-> TRUE, str |-> ""], [null |-> FALSE, str |-> "text/html"]}

\* curl::get_response_code
get_response_code(code, value) ==
    IF code # "CURLE_OK" THEN [raised |-> curl_easy_strerror(code)]
    ELSE [raised |-> "none", result |-> value]

\* curl::get_content_length_download with the engine's answer not checked
get_content_length_download_unchecked(code, value) ==
    LET content_length == IF code = "CURLE_OK" THEN value ELSE 0
    IN  [raised |-> "none",
         result |-> IF content_length >= 0 THEN content_length ELSE -1]

\* curl::get_content_length_download
get_content_length_download(code, value) ==
    IF code # "CURLE_OK" THEN [raised |-> curl_easy_strerror(code)]
    ELSE [raised |-> "none", result |-> IF value >= 0 THEN value ELSE -1]

\* curl::get_content_length_upload
get_content_length_upload(code, value) ==
    IF code # "CURLE_OK" THEN [raised |-> curl_easy_strerror(code)]
    ELSE [raised |-> "none", result |-> IF value >= 0 THEN value ELSE -1]

\* curl::get_content_type
get_content_type(code, value) ==
    IF code # "CURLE_OK" THEN [raised |-> curl_easy_strerror(code)]
    ELSE [raised |-> "none", result |-> IF value.null THEN "" ELSE value.str]

\* ----------------------------------------- calls on the handle and its list
Call(op, r) == [op |-> op, code |-> r.code, raised |-> r.raised]
Room == Len(heap) < MaxNodes

ListAppend(value, alloc_ok, ub) ==
    /\ fault = "none"
    /\ Room
    /\ LET r == curl_list_append(Es, value, alloc_ok, ub)
       IN  ECommit(r) /\ easy_op' = Call("append", r)
    /\ UNCHANGED <<adapter, life>>

ListReset(ub) ==
    /\ fault = "none"
    /\ LET r == curl_list_reset(Es, ub)
       IN  ECommit(r) /\ easy_op' = Call("reset", r)
    /\ UNCHANGED <<adapter, life>>

SetOption(value, code) ==
    /\ fault = "none"
    /\ LET r == curl_set_option(Es, "CURLOPT_CONNECTTIMEOUT_MS", value, code)
       IN  ECommit(r) /\ easy_op' = Call("set_option", r)
    /\ UNCHANGED <<adapter, life>>

SetHttpHeader(header, value, alloc_ok, ub, code) ==
    /\ fault = "none"
    /\ Room
    /\ LET r == append_http_header(Es, HeaderLine(header, value), alloc_ok, ub, code)
       IN  ECommit(r) /\ easy_op' = Call("set_http_header", r)
    /\ UNCHANGED <<adapter, life>>

UnsetHttpHeader(header, alloc_ok, ub, code) ==
    /\ fault = "none"
    /\ Room
    /\ LET r == append_http_header(Es, UnsetLine(header), alloc_ok, ub, code)
       IN  ECommit(r) /\ easy_op' = Call("unset_http_header", r)
    /\ UNCHANGED <<adapter, life>>

ResetHttpHeaders(ub, code) ==
    /\ fault = "none"
    /\ LET r == reset_http_headers(Es, ub, code)
       IN  ECommit(r) /\ easy_op' = Call("reset_http_headers", r)
    /\ UNCHANGED <<adapter, life>>

SetPostFields(size, buf, code1, code2) ==
    /\ fault = "none"
    /\ LET r == set_post_fields(Es, size, buf, code1, code2)
       IN  /\ ECommit(r)
           /\ easy_op' = Call("set_post_fields", r)
    /\ UNCHANGED <<adapter, life>>

\* an outcome accessor is called and the engine answers code, value
GetInfo(op, code, value, r) ==
    /\ fault = "none"
    /\ easy_op' = [op |-> op, code |-> code, raised |-> r.raised, value |-> value,
                   result |-> IF r.raised = "none" THEN <<r.result>> ELSE <<>>]
    /\ UNCHANGED <<adapter, life, fault, heap, m_slist, opts, appended>>

GetResponseCode(code, value) ==
    GetInfo("get_response_code", code, value, get_response_code(code, value))

GetContentLengthDownload(code, value) ==
    GetInfo("get_content_length_download", code, value,
            get_content_length_download(code, value))

GetContentLengthUpload(code, value) ==
    GetInfo("get_content_length_upload", code, value,
            get_content_length_upload(code, value))

GetContentType(code, value) ==
    GetInfo("get_content_type", code, value, get_content_type(code, value))

EasyNext ==
    \/ \E value \in Lines, alloc_ok \in BOOLEAN, ub \in UBOutcomes :
            ListAppend(value, alloc_ok, ub)
    \/ \E ub \in UBOutcomes : ListReset(ub)
    \/ \E value \in {1}, code \in Codes : SetOption(value, code)
    \/ \E h \in HeaderNames, v \in HeaderValues, alloc_ok \in BOOLEAN, ub \in UBOutcomes,
          code \in Codes : SetHttpHeader(h, v, alloc_ok, ub, code)
    \/ \E h \in HeaderNames, alloc_ok \in BOOLEAN, ub \in UBOutcomes, code \in Codes :
            UnsetHttpHeader(h, alloc_ok, ub, code)
    \/ \E ub \in UBOutcomes, code \in Codes : ResetHttpHeaders(ub, code)
    \/ \E size \in {1}, buf \in {1}, code1 \in Codes, code2 \in Codes :
            SetPostFields(size, buf, code1, code2)
    \/ \E code \in Codes, value \in ResponseCodes : GetResponseCode(code, value)
    \/ \E code \in Codes, value \in Lengths : GetContentLengthDownload(code, value)
    \/ \E code \in Codes, value \in Lengths : GetContentLengthUpload(code, value)
    \/ \E code \in Codes, value \in ContentTypes : GetContentType(code, value)

EasySpec == Init /\ [][EasyNext]_vars


\* ================================================================ teardown
\* curl_manager::~curl_manager: async_clear() is posted, then the manager's
\* shared_ptr to the adapter is released
ManagerDestroy ==
    /\ Alive
    /\ life = "owned"
    /\ Len(strandQ) < MaxQueue
    /\ strandQ' = Append(strandQ, Task("clear", 0, NoEntry, ""))
    /\ life' = "released"
    /\ drained' = {}
    /\ last_op' = "none"
    /\ fate' = Settled
    /\ UNCHANGED <<m_associations, m_handler_map, m_socket_map, hooks, m_timer, posts,
                   post_ec, pc, inAction, action_args, eng_handles, eng_done, eng_msgs,
                   fault>>
    /\ UNCHANGED easy

\* the engine closes a connection of a transfer in progress while the
\* associations of a destroyed adapter are destroyed: the handle's close-socket
\* hook still refers to the adapter
LateHook(closes) ==
    /\ closes # {}
    /\ \E h \in Handles :
            m_associations[h] = Assoc /\ h \in eng_handles \ eng_done /\ hooks[h]

\* the last shared_ptr to the adapter is gone, which destroys it before
\* anything else happens: ~curl_multi_asio sets the four callback options of
\* the multi handle to null; m_timer, m_strand, m_socket_map and m_handler_map
\* are destroyed (no callback is invoked); then, in ~curl_multi, the
\* associations (curl_multi_remove_handle for each) and the multi handle.
\* Handlers that wait on the strand stay queued in the io_service.
AdapterDestroy(closes, ub) ==
    /\ fault = "none"
    /\ life = "released"
    /\ HandlerRefs = 0
    /\ Commit([multi_clear([St EXCEPT !.handlers = [h \in Handles |-> NoEntry],
                                      !.socks = [fd \in Fds |-> Absent]], {})
                EXCEPT !.fault = IF LateHook(closes) THEN ub ELSE "none"])
    /\ last_op' = IF LateHook(closes) THEN "hook_after_destroy" ELSE "destroyed"
    /\ life' = "destroyed"
    /\ UNCHANGED <<pc, action_args>>
    /\ UNCHANGED easy

\* the io_service runs a lambda of post_handle or async_clear, which captured
\* the raw this pointer (lines 476 and 505), after the adapter was destroyed:
\* it works on released memory
RunOrphan(ub) ==
    /\ fault = "none"
    /\ life = "destroyed"
    /\ strandQ # <<>>
    /\ strandQ' = Tail(strandQ)
    /\ fault' = ub
    /\ last_op' = "task_after_destroy"
    /\ drained' = {}
    /\ fate' = Settled
    /\ UNCHANGED <<m_associations, m_handler_map, m_socket_map, hooks, m_timer, posts,
                   post_ec, pc, inAction, action_args, eng_handles, eng_done, eng_msgs,
                   life>>
    /\ UNCHANGED easy

TeardownNext ==
    \/ Next
    \/ ManagerDestroy
    \/ \E closes \in SUBSET Fds, ub \in UBOutcomes : AdapterDestroy(closes, ub)
    \/ \E ub \in UBOutcomes : RunOrphan(ub)

TeardownSpec == Init /\ [][TeardownNext]_vars


\* ------------------------------------------------------------ properties
\* the steps that run add_handle for handle h, directly or as the posted task
AddStep(h) ==
    \/ \E handler \in Handlers(h), accept \in BOOLEAN, ord \in Orders :
            AddHandle(h, handler, accept, ord)
    \/ /\ strandQ # <<>>
       /\ Head(strandQ).h = h
       /\ \E accept \in BOOLEAN, ord \in Orders : RunAdd(accept, ord)

\* the steps that run remove_handle for handle h on the application's behalf
RemoveStep(h) ==
    \E f \in FaultKinds, closes \in SUBSET Fds : RemoveHandle(h, f, closes)

EngineErrors == {"CURLM_ADDED_ALREADY", "CURLM_OUT_OF_MEMORY", "CURLM_INTERNAL_ERROR"}
ClearOps == {"clear", "clear_task"}
OkTasks(q) == Len(SelectSeq(q, LAMBDA task : task = TimerTask("ok")))

\* what a second check_info could change
AdapterView(s) ==
    <<s.assoc, s.handlers, s.socks, s.hooks, s.timer, s.strandQ, s.posts, s.post_ec,
      s.eng_handles, s.eng_done, s.eng_msgs, s.fault, s.drained>>

\* C1: whenever a drain has read the DONE message of a transfer that ended
\* without error and whose handle has a callable completion callback stored,
\* that callback has been scheduled exactly once with the no-error status, and
\* the handle is detached from the association map.
C1_CompletionScheduled ==
    \A d \in drained :
        (d.res = "CURLE_OK" /\ d.cb > EmptyHandler) =>
            /\ posts[d.cb] = 1
            /\ post_ec[d.cb] = "no_error"
            /\ m_associations[d.h] = Absent

\* C2: a stored completion callback is scheduled at most once; it is scheduled
\* only by a drain, which takes it out of the table in the same step; a
\* callback that remove_handle takes out of the table is not scheduled by the
\* removal and, being out of the table, by nothing later.
C2_AtMostOnce ==
    /\ [](\A c \in Handles : posts[c] <= 1)
    /\ [][\A c \in Handles :
            /\ posts'[c] > posts[c] =>
                    /\ posts'[c] = posts[c] + 1
                    /\ last_op' = "drain"
                    /\ c \in Stored
                    /\ c \notin Stored'
            /\ fate'[c] = "removed" => posts'[c] = posts[c] /\ c \notin Stored']_vars

C2_Removed ==
    \E c \in Handles : fate[c] = "removed" /\ posts[c] = 0 /\ m_associations[c] = Absent

\* C3: when clear has run (posted by async_clear or called directly) the
\* association map, the callback table and the socket table are empty; the
\* callbacks it took out of the table were not scheduled since they were
\* stored, and a callback that is not in the table is never scheduled.
C3_ClearCancels ==
    /\ [](last_op \in ClearOps =>
            /\ \A h \in Handles : m_associations[h] = Absent /\ m_handler_map[h] = NoEntry
            /\ \A fd \in Fds : m_socket_map[fd] = Absent)
    /\ [](\A c \in Handles : fate[c] = "cleared" => posts[c] = 0)
    /\ [][\A c \in Handles : posts'[c] > posts[c] => c \in Stored]_vars

C3_PostedClearRan ==
    /\ last_op = "clear_task"
    /\ \A c \in Handles : fate[c] = "cleared"

\* C4: remove_handle for a pointer that is not in the association map ends
\* normally and changes neither the association map, nor the callback table,
\* nor the socket table.
C4_RemoveUnknownIsNoOp ==
    [][\A h \in Handles :
          (m_associations[h] = Absent /\ RemoveStep(h)) =>
              /\ fault' = "none"
              /\ UNCHANGED <<m_associations, m_handler_map, m_socket_map>>]_vars

\* C5: whenever a drain has read the DONE message of a transfer whose handle
\* has a callable completion callback stored, that callback has been scheduled
\* with a status that is no-error exactly when the transfer's result is
\* CURLE_OK.
C5_StatusFollowsResult ==
    \A d \in drained :
        d.cb > EmptyHandler =>
            /\ posts[d.cb] >= 1
            /\ (post_ec[d.cb] = "no_error") <=> (d.res = "CURLE_OK")

\* C6 as stated: add_handle for a handle that is still registered ends without
\* an error and leaves the association map and the callback table as they were.
C6_SecondSubmitIsSilent ==
    [][\A h \in Handles :
          (m_associations[h] = Assoc /\ h \in eng_handles /\ AddStep(h)) =>
              /\ last_op' = "add"
              /\ UNCHANGED <<m_associations, m_handler_map>>]_vars

\* C6: add_handle for a handle that is still registered throws the engine's
\* "added already" error and leaves the association map, the callback table
\* and the engine's registrations as they were.
C6_SecondSubmitRejected ==
    [][\A h \in Handles :
          (m_associations[h] = Assoc /\ h \in eng_handles /\ AddStep(h)) =>
              /\ last_op' = "CURLM_ADDED_ALREADY"
              /\ UNCHANGED <<m_associations, m_handler_map, eng_handles>>]_vars

C6_Resubmitted ==
    /\ last_op = "CURLM_ADDED_ALREADY"
    /\ \E h \in Handles : m_associations[h] = Assoc /\ m_handler_map[h] = h

\* C7: when add_handle fails with an engine error, the association map and the
\* callback table are as they were before the call: no entry, not even an
\* empty one, was added for the handle.
C7_FailedAddLeavesNoTrace ==
    [][\A h \in Handles :
          (AddStep(h) /\ last_op' \in EngineErrors) =>
              UNCHANGED <<m_associations, m_handler_map>>]_vars

\* C8: at most one call of socket_action is in progress at any time.
C8_OneActionAtATime ==
    inAction <= 1

C8_ActionWithTasksQueued ==
    /\ inAction = 1
    /\ pc = "in_action"
    /\ Len(strandQ) = MaxQueue
    /\ \A i \in 1..Len(strandQ) : strandQ[i] = TimerTask("ok")

\* C9: a timer-arm call with a timeout <= 0 enters no socket_action itself and
\* puts exactly one progress task at the end of the strand's queue, leaving no
\* wait outstanding; a progress task leaves the queue only by being run, and
\* running it calls socket_action with CURL_SOCKET_TIMEOUT and an empty mask.
C9_NonPositiveTimeoutPosts ==
    [][/\ last_op' = "timer_arm_now" =>
            /\ inAction' = inAction
            /\ m_timer' = "idle"
            /\ OkTasks(strandQ') = OkTasks(strandQ) + 1
            /\ strandQ'[Len(strandQ')] = TimerTask("ok")
       /\ OkTasks(strandQ') < OkTasks(strandQ) =>
            /\ OkTasks(strandQ') = OkTasks(strandQ) - 1
            /\ Head(strandQ) = TimerTask("ok")
            /\ inAction' = inAction + 1
            /\ action_args' = [sockfd |-> CURL_SOCKET_TIMEOUT, ev_bitmask |-> 0]]_vars

C9_ArmedNow ==
    /\ last_op = "timer_arm_now"
    /\ pc = "in_action"
    /\ strandQ # <<>>
    /\ strandQ[Len(strandQ)] = TimerTask("ok")

\* C10 as stated: every return of socket_action is followed, in the same
\* handler, by a drain that leaves no message in the engine's queue.
C10_EveryActionDrained ==
    [][inAction' < inAction => last_op' = "drain" /\ eng_msgs' = <<>>]_vars

\* C10: every socket_action that returns without an engine error is followed,
\* in the same handler, by a drain; a drain ends without a fault, leaves no
\* message in the engine's queue and no finished transfer registered, and a
\* second drain right after it changes nothing and reads nothing.
C10_DrainExhausts ==
    /\ [][(inAction' < inAction /\ last_op' \notin EngineErrors) => last_op' = "drain"]_vars
    /\ [](last_op = "drain" =>
            /\ eng_msgs = <<>>
            /\ eng_done = {}
            /\ \A f \in FaultKinds : AdapterView(check_info(St, f)) = AdapterView(St))

C10_DrainedSeveral ==
    /\ last_op = "drain"
    /\ Cardinality(drained) = NumHandles

\* the lines a traversal from raw() yields
Traversal == [i \in 1..Len(Chain(heap, m_slist, Len(heap))) |->
                heap[Chain(heap, m_slist, Len(heap))[i]].data]

\* C11: after reset() and then n >= 0 successful appends, raw() refers to a
\* chain of live nodes whose traversal yields exactly the n appended lines in
\* the order they were appended.
C11_ResetThenAppend ==
    (fault = "none" /\ appended.since_reset) =>
        /\ ~Released(heap, Chain(heap, m_slist, Len(heap)))
        /\ Traversal = appended.lines

ConfigCalls == {"set_option", "set_http_header", "unset_http_header", "set_post_fields"}
Accessors == {"get_response_code", "get_content_length_download",
              "get_content_length_upload", "get_content_type"}

\* C12: a configuration call (set_option, set_http_header, unset_http_header,
\* set_post_fields) in which the engine rejects an option raises an error that
\* carries the engine's diagnostic string and leaves the handle's registered
\* options and its header list exactly as they were before the call.
C12_RejectedOptionChangesNothing ==
    [][(easy_op'.op \in ConfigCalls /\ easy_op'.code # "CURLE_OK") =>
            /\ easy_op'.raised = curl_easy_strerror(easy_op'.code)
            /\ UNCHANGED <<opts, heap, m_slist>>]_vars

\* the value an accessor returns for the engine's value
Translated(op, value) ==
    CASE op = "get_response_code" -> value
      [] op \in {"get_content_length_download", "get_content_length_upload"} ->
            IF value >= 0 THEN value ELSE -1
      [] op = "get_content_type" -> IF value.null THEN "" ELSE value.str

\* C13 as stated: an outcome accessor returns a value for every answer of the
\* engine, an error on the query included.
C13_AccessorsNeverFail ==
    easy_op.op \in Accessors =>
        /\ easy_op.raised = "none"
        /\ Len(easy_op.result) = 1

\* C13: an outcome accessor returns a value whenever the engine answers the
\* query with CURLE_OK: the engine's value, with -1 for a negative (unknown)
\* content length and the empty string for a null content type; when the
\* engine answers with an error it throws an error carrying the engine's
\* diagnostic string and returns nothing.
C13_AccessorsFailOnlyOnEngineError ==
    easy_op.op \in Accessors =>
        IF easy_op.code = "CURLE_OK"
        THEN /\ easy_op.raised = "none"
             /\ easy_op.result = <<Translated(easy_op.op, easy_op.value)>>
        ELSE /\ easy_op.raised = curl_easy_strerror(easy_op.code)
             /\ easy_op.result = <<>>

C13_UnknownLength ==
    /\ easy_op.op = "get_content_length_download"
    /\ easy_op.code = "CURLE_OK"
    /\ easy_op.value = -1
    /\ easy_op.result = <<-1>>

\* C15: a timer-arm call with a positive value leaves exactly one wait
\* outstanding and cancels the wait that was pending; a cancelled wait's
\* handler calls no socket_action; and a wait that had expired with its handler
\* queued but not yet run when the arm superseded it leads to no socket_action
\* either, i.e. its handler does not stay queued as a progress task.
C15_SupersededWaitNeverActs ==
    [][/\ last_op' = "timer_arm_wait" =>
            /\ m_timer' = "waiting"
            /\ m_timer = "waiting" => strandQ' = Append(strandQ, TimerTask("aborted"))
       /\ (strandQ # <<>> /\ Head(strandQ) = TimerTask("aborted") /\ strandQ' = Tail(strandQ))
            => inAction' = inAction
       /\ (last_op = "timer_expired" /\ last_op' = "timer_arm_wait") =>
            OkTasks(strandQ') = OkTasks(strandQ) - 1]_vars

\* C16: between adapter operations, the handles with an entry in the
\* association map are exactly the handles with an entry in the callback table.
C16_TablesAgree ==
    fault = "none" =>
        \A h \in Handles : (m_associations[h] # Absent) <=> (m_handler_map[h] # NoEntry)

\* C17 as stated: while remove_handle unregisters a handle from the engine, no
\* adapter socket hook runs on the handle's behalf (its hooks were cleared
\* first), so the socket table is as before.
C17_HooksClearedFirst ==
    [][\A h \in Handles : RemoveStep(h) => m_socket_map' = m_socket_map]_vars

\* C17: remove_handle unregisters a registered handle from the engine while its
\* hooks still refer to the adapter, so that the descriptors the engine closes
\* during the unregistration leave the socket table through the close-socket
\* hook, and clears the handle's hooks afterwards; after a detach by
\* remove_handle or by the drain the handle is not registered in the engine
\* and its hooks do not refer to the adapter.
C17_UnregisteredThenCleared ==
    /\ [][\A h \in Handles, f \in FaultKinds, closes \in SUBSET Fds :
            (m_associations[h] = Assoc /\ RemoveHandle(h, f, closes)) =>
                /\ h \notin eng_handles'
                /\ ~hooks'[h]
                /\ h \in eng_handles \ eng_done =>
                        \A fd \in closes : m_socket_map'[fd] = Absent]_vars
    /\ [](\A d \in drained : d.h \notin eng_handles /\ ~hooks[d.h])

C17_Detached ==
    /\ last_op = "remove"
    /\ \E h \in Handles :
            /\ fate[h] = "removed"
            /\ m_associations[h] = Absent
            /\ ~hooks[h]
            /\ h \notin eng_handles

StreamPurpose(purpose, family) ==
    purpose = "CURLSOCKTYPE_IPCXN" /\ family \in {"AF_INET", "AF_INET6"}

\* C18: every entry of the socket table holds a live reactor socket, and an
\* entry appears only by an open-socket call for a stream purpose with family
\* IPv4 or IPv6; an open-socket call with another purpose or family returns
\* CURL_SOCKET_BAD and adds nothing; a close-socket call for an unknown
\* descriptor changes nothing; the socket-readiness callback neither adds nor
\* removes an entry.
C18_SocketTable ==
    /\ [](fault = "none" => \A fd \in Fds : m_socket_map[fd] \in {Absent, Sock})
    /\ [][\A fd \in Fds :
            (m_socket_map[fd] = Absent /\ m_socket_map'[fd] # Absent) =>
                \E h \in Handles, p \in Purposes, fam \in Families :
                    StreamPurpose(p, fam) /\ EngineOpenSocket(h, p, fam, fd)]_vars
    /\ [](\A p \in Purposes, fam \in Families, fd \in Fds :
            ~StreamPurpose(p, fam) =>
                /\ open_socket_callback(St, p, fam, fd).result = CURL_SOCKET_BAD
                /\ open_socket_callback(St, p, fam, fd).socks = m_socket_map)
    /\ [](\A fd \in Fds :
            m_socket_map[fd] = Absent => close_socket_callback(St, fd).socks = m_socket_map)
    /\ [](\A fd \in Fds, a \in PollActions :
            static_socket_callback(St, fd, a).socks = m_socket_map)

\* C19: whenever a handle has no entry in the association map, its open-socket
\* and close-socket hooks do not refer to the adapter.
C19_DetachedHandleHasNoHooks ==
    fault = "none" =>
        \A h \in Handles : m_associations[h] = Absent => ~hooks[h]

\* C14: when the adapter is destroyed, the associations have already been
\* cleared by the clear that the manager's destructor posted, and the engine
\* calls no adapter callback during or after the destruction; from the
\* manager's destruction on no completion callback is scheduled.
C14_OrderlyTeardown ==
    /\ [][(life # "destroyed" /\ life' = "destroyed") =>
            /\ \A h \in Handles : m_associations[h] = Absent
            /\ last_op' # "hook_after_destroy"]_vars
    /\ [][life # "owned" => posts' = posts]_vars

\* C20: once the adapter is destroyed, no task posted on its behalf leaves the
\* queue to execute: the add posted by post_handle, the clear posted by
\* async_clear and the timer tasks have all run before.
C20_NoTaskAfterDestruction ==
    [][life = "destroyed" => strandQ' = strandQ]_vars
====
